---- MODULE Spec2Model ----
(***************************************************************************)
(* The triangle renderer of src/src/main.ts and its shader                 *)
(* src/src/shaders/shader.wgsl as a state machine.                         *)
(*                                                                         *)
(* The script constructs one Renderer, calls the async initialize() and    *)
(* registers render() as the fulfilment callback of the promise it         *)
(* returns.  pc is the position of that single thread of control; the two  *)
(* awaits of initialize() are the points where the browser settles a       *)
(* promise.  After queue.submit the GPU executes the command buffer: the   *)
(* vertex shader once per vertex index and the fragment shader once per    *)
(* covered pixel, in any order.                                            *)
(*                                                                         *)
(* f32 values are written in hundredths: 0.5 is 50, 1.0 is 100, 0.23 is 23.*)
(***************************************************************************)
EXTENDS Integers, Sequences, FiniteSets, TLC

VARIABLES
    pc,                   \* position of the script / initialize() / render()
    canvas,               \* const canvas of initialize()
    adaptor,              \* const adaptor of initialize()
    context,              \* Renderer.context
    device,               \* Renderer.device
    pipeline,             \* Renderer.pipeline
    positionBuffer,       \* Renderer.positionBuffer
    colorsBuffer,         \* Renderer.colorsBuffer
    renderPassDescriptor, \* Renderer.renderPassDescriptor
    assigned,             \* how many times each field has been assigned
    objects,              \* the GPU objects created so far, by handle
    calls,                \* browser / WebGPU API calls made so far, in order
    renderCalls,          \* how many times render() has been invoked
    cmds,                 \* commands recorded on the command encoder
    encoding,             \* state of the command encoder and its render pass
    commandBuffer,        \* const commandBuffer of render()
    queue,                \* command buffers submitted to device.queue
    preferredFormat,      \* what navigator.gpu.getPreferredCanvasFormat() returns
    positions,            \* the Float32Array passed to the first createBuffer
    colors,               \* the Float32Array passed to the second createBuffer
    target,               \* the canvas texture as the GPU leaves it
    vsOut,                \* vertex shader results, by vertex index
    fragOut               \* fragment shader results, by fragment

fields == <<context, device, pipeline, positionBuffer, colorsBuffer,
            renderPassDescriptor>>

gpuVars == <<target, vsOut, fragOut>>

encVars == <<cmds, encoding, commandBuffer, queue>>

inputs == <<preferredFormat, positions, colors>>

vars == <<pc, canvas, adaptor, fields, assigned, objects, calls, renderCalls,
          encVars, inputs, gpuVars>>

\* Number of pixels the rasterised triangle covers.
MaxFragments == 3

\* Number of alternative uploads considered besides the literal ones.
MaxVariant == 1

FieldNames == {"context", "device", "pipeline", "positionBuffer",
               "colorsBuffer", "renderPassDescriptor"}

Formats == {"bgra8unorm", "rgba8unorm"}

BYTES_PER_ELEMENT == 4

PositionData == <<-50, -50, 50, -50, 0, 50>>

ColorData == <<100, 0, 0, 0, 100, 0, 0, 0, 100>>

\* data shifted by v quarter units: an upload other than the literal one
Shifted(data, v) == [i \in 1..Len(data) |-> data[i] + 25 * v]

NoObjects == [h \in {} |-> 0]

Count(name, log) == Cardinality({i \in 1..Len(log) : log[i] = name})

Assign(field) == [assigned EXCEPT ![field] = @ + 1]

InitCommon ==
    /\ pc = "initialize"
    /\ canvas = "undefined"
    /\ adaptor = "undefined"
    /\ context = "undefined"
    /\ device = "undefined"
    /\ pipeline = "undefined"
    /\ positionBuffer = "undefined"
    /\ colorsBuffer = "undefined"
    /\ renderPassDescriptor = "undefined"
    /\ assigned = [f \in FieldNames |-> 0]
    /\ objects = NoObjects
    /\ calls = <<>>
    /\ renderCalls = 0
    /\ cmds = <<>>
    /\ encoding = "none"
    /\ commandBuffer = "undefined"
    /\ queue = <<>>
    /\ preferredFormat \in Formats
    /\ target = "blank"
    /\ vsOut = NoObjects
    /\ fragOut = NoObjects

Init ==
    /\ InitCommon
    /\ positions = PositionData
    /\ colors = ColorData

\* The same program with other values in the two uploaded arrays.
InitAnyData ==
    /\ InitCommon
    /\ \E v \in 0..MaxVariant : positions = Shifted(PositionData, v)
    /\ \E w \in 0..MaxVariant : colors = Shifted(ColorData, w)

----------------------------------------------------------------------------
(* initialize()                                                            *)

\* document.getElementById('canvas')
GetCanvas ==
    /\ pc = "initialize"
    /\ \E found \in BOOLEAN : canvas' = IF found THEN "canvas" ELSE "null"
    /\ calls' = Append(calls, "getElementById")
    /\ pc' = "getContext"
    /\ UNCHANGED <<adaptor, fields, assigned, objects, renderCalls, encVars,
                   inputs, gpuVars>>

\* this.context = canvas.getContext('webgpu')!  -- a null canvas throws and
\* the promise of initialize() is rejected
GetContext ==
    /\ pc = "getContext"
    /\ IF canvas = "null"
         THEN /\ pc' = "rejected"
              /\ UNCHANGED <<context, assigned, calls>>
         ELSE /\ \E c \in {"null", "ctx"} : context' = c
              /\ assigned' = Assign("context")
              /\ calls' = Append(calls, "getContext")
              /\ pc' = "checkContext"
    /\ UNCHANGED <<canvas, adaptor, device, pipeline, positionBuffer,
                   colorsBuffer, renderPassDescriptor, objects, renderCalls,
                   encVars, inputs, gpuVars>>

\* private fail(msg) { alert(msg) }
fail(log) == Append(log, "alert")

\* if(!this.context){ this.fail(..); console.error(..); return; }
CheckContext ==
    /\ pc = "checkContext"
    /\ IF context = "null"
         THEN /\ calls' = Append(fail(calls), "console.error")
              /\ pc' = "resolved"
         ELSE /\ pc' = "requestAdapter"
              /\ UNCHANGED calls
    /\ UNCHANGED <<canvas, adaptor, fields, assigned, objects, renderCalls,
                   encVars, inputs, gpuVars>>

\* navigator?.gpu.requestAdapter({powerPreference: 'low-power'}), then await
RequestAdapter ==
    /\ pc = "requestAdapter"
    /\ calls' = Append(calls, "requestAdapter")
    /\ pc' = "awaitAdapter"
    /\ UNCHANGED <<canvas, adaptor, fields, assigned, objects, renderCalls,
                   encVars, inputs, gpuVars>>

\* the browser resolves the adapter promise, with an adapter or with null
AdapterSettled ==
    /\ pc = "awaitAdapter"
    /\ \E a \in {"null", "adapter"} : adaptor' = a
    /\ pc' = "requestDevice"
    /\ UNCHANGED <<canvas, fields, assigned, objects, calls, renderCalls,
                   encVars, inputs, gpuVars>>

\* Faulty variant of RequestDevice: a null adaptor is reported through fail()
\* and initialize() returns.
RequestDevice_AlertOnNull ==
    /\ pc = "requestDevice"
    /\ IF adaptor = "null"
         THEN /\ calls' = fail(calls)
              /\ pc' = "resolved"
         ELSE /\ calls' = Append(calls, "requestDevice")
              /\ pc' = "awaitDevice"
    /\ UNCHANGED <<canvas, adaptor, fields, assigned, objects, renderCalls,
                   encVars, inputs, gpuVars>>

\* adaptor!.requestDevice(), then await -- a null adaptor throws
RequestDevice ==
    /\ pc = "requestDevice"
    /\ IF adaptor = "null"
         THEN /\ pc' = "rejected"
              /\ UNCHANGED calls
         ELSE /\ calls' = Append(calls, "requestDevice")
              /\ pc' = "awaitDevice"
    /\ UNCHANGED <<canvas, adaptor, fields, assigned, objects, renderCalls,
                   encVars, inputs, gpuVars>>

\* the browser settles the device promise; this.device = <the device>, or the
\* rejection propagates out of initialize()
DeviceSettled ==
    /\ pc = "awaitDevice"
    /\ \E ok \in BOOLEAN :
         IF ok
           THEN /\ device' = "device"
                /\ assigned' = Assign("device")
                /\ pc' = "configure"
           ELSE /\ pc' = "rejected"
                /\ UNCHANGED <<device, assigned>>
    /\ UNCHANGED <<canvas, adaptor, context, pipeline, positionBuffer,
                   colorsBuffer, renderPassDescriptor, objects, calls,
                   renderCalls, encVars, inputs, gpuVars>>

\* Faulty variant of Configure: the buffers are created right after
\* configure, without prepareModel() having run.
Configure_BuffersFirst ==
    /\ pc = "configure"
    /\ objects' = objects @@
         (context :> [device |-> device, format |-> preferredFormat,
                      alphaMode |-> "premultiplied"])
    /\ calls' = calls \o <<"getPreferredCanvasFormat", "configure">>
    /\ pc' = "createPositionBuffer"
    /\ UNCHANGED <<canvas, adaptor, fields, assigned, renderCalls, encVars,
                   inputs, gpuVars>>

\* this.context.configure({device, format, alphaMode: "premultiplied"})
Configure ==
    /\ pc = "configure"
    /\ objects' = objects @@
         (context :> [device |-> device, format |-> preferredFormat,
                      alphaMode |-> "premultiplied"])
    /\ calls' = calls \o <<"getPreferredCanvasFormat", "configure">>
    /\ pc' = "createShaderModule"
    /\ UNCHANGED <<canvas, adaptor, fields, assigned, renderCalls, encVars,
                   inputs, gpuVars>>

----------------------------------------------------------------------------
(* prepareModel()                                                          *)

\* const shaderModule = this.device.createShaderModule({label, code})
CreateShaderModule ==
    /\ pc = "createShaderModule"
    /\ objects' = objects @@
         ("shaderModule" :>
            [label |-> "our hardcoded red triangle shaders",
             entryPoints |-> {"vertexMain", "fragmentMain"}])
    /\ calls' = Append(calls, "createShaderModule")
    /\ pc' = "createRenderPipeline"
    /\ UNCHANGED <<canvas, adaptor, fields, assigned, renderCalls, encVars,
                   inputs, gpuVars>>

positionBufferLayout ==
    [arrayStride |-> 2 * BYTES_PER_ELEMENT,
     attributes |-> <<[shaderLocation |-> 0, offset |-> 0,
                       format |-> "float32x2"]>>,
     stepMode |-> "vertex"]

colorBufferLayout ==
    [arrayStride |-> 3 * BYTES_PER_ELEMENT,
     attributes |-> <<[shaderLocation |-> 1, offset |-> 0,
                       format |-> "float32x3"]>>,
     stepMode |-> "vertex"]

vertexState ==
    [module |-> "shaderModule", entryPoint |-> "vertexMain",
     buffers |-> <<positionBufferLayout, colorBufferLayout>>]

fragmentState(format) ==
    [module |-> "shaderModule", entryPoint |-> "fragmentMain",
     targets |-> <<[format |-> format]>>]

\* this.pipeline = this.device.createRenderPipeline({...})
CreateRenderPipeline ==
    /\ pc = "createRenderPipeline"
    /\ pipeline' = "pipeline"
    /\ assigned' = Assign("pipeline")
    /\ objects' = objects @@
         ("pipeline" :>
            [label |-> "draw a triangle",
             vertex |-> vertexState,
             fragment |-> fragmentState(preferredFormat),
             topology |-> "triangle-list",
             layout |-> "auto"])
    /\ calls' = calls \o <<"getPreferredCanvasFormat", "createRenderPipeline">>
    /\ pc' = "renderPassDescriptor"
    /\ UNCHANGED <<canvas, adaptor, context, device, positionBuffer,
                   colorsBuffer, renderPassDescriptor, renderCalls, encVars,
                   inputs, gpuVars>>

\* this.renderPassDescriptor = {label, colorAttachments: [{view, clearValue,
\* loadOp: 'clear', storeOp: 'store'}]}
SetRenderPassDescriptor ==
    /\ pc = "renderPassDescriptor"
    /\ renderPassDescriptor' = "descriptor"
    /\ assigned' = Assign("renderPassDescriptor")
    /\ objects' = objects @@
         ("descriptor" :>
            [label |-> "our basic canvas renderPass",
             view |-> "currentTextureView",
             clearValue |-> <<30, 30, 23, 100>>,
             loadOp |-> "clear",
             storeOp |-> "store"])
    /\ calls' = calls \o <<"getCurrentTexture", "createView">>
    /\ pc' = "createPositionBuffer"
    /\ UNCHANGED <<canvas, adaptor, context, device, pipeline, positionBuffer,
                   colorsBuffer, renderCalls, encVars, inputs, gpuVars>>

----------------------------------------------------------------------------
(* createBuffer() and the two uploads that end initialize()                *)

byteLength(data) == Len(data) * BYTES_PER_ELEMENT

\* Faulty variant of createBuffer: the size is the element count of the
\* array, not its byte length.
createBuffer_SizeInElements(data) ==
    [size |-> Len(data),
     usage |-> {"VERTEX", "COPY_DST"},
     contents |-> data,
     mapState |-> "unmapped"]

\* the buffer createBuffer(data) returns: created mapped with size
\* data.byteLength, filled with data, unmapped
createBuffer(data) ==
    [size |-> byteLength(data),
     usage |-> {"VERTEX", "COPY_DST"},
     contents |-> data,
     mapState |-> "unmapped"]

createBufferCalls == <<"createBuffer", "getMappedRange", "unmap">>

\* this.positionBuffer = this.createBuffer(new Float32Array([...]))
CreatePositionBuffer ==
    /\ pc = "createPositionBuffer"
    /\ positionBuffer' = "buffer1"
    /\ assigned' = Assign("positionBuffer")
    /\ objects' = objects @@ ("buffer1" :> createBuffer(positions))
    /\ calls' = calls \o createBufferCalls
    /\ pc' = "createColorsBuffer"
    /\ UNCHANGED <<canvas, adaptor, context, device, pipeline, colorsBuffer,
                   renderPassDescriptor, renderCalls, encVars, inputs,
                   gpuVars>>

\* this.colorsBuffer = this.createBuffer(new Float32Array([...])); initialize()
\* returns and its promise is fulfilled
CreateColorsBuffer ==
    /\ pc = "createColorsBuffer"
    /\ colorsBuffer' = "buffer2"
    /\ assigned' = Assign("colorsBuffer")
    /\ objects' = objects @@ ("buffer2" :> createBuffer(colors))
    /\ calls' = calls \o createBufferCalls
    /\ pc' = "resolved"
    /\ UNCHANGED <<canvas, adaptor, context, device, pipeline, positionBuffer,
                   renderPassDescriptor, renderCalls, encVars, inputs,
                   gpuVars>>

----------------------------------------------------------------------------
(* renderer.initialize().then(() => { renderer.render(); })                *)

\* the fulfilment callback runs once initialize() has returned normally
ThenCallback ==
    /\ pc = "resolved"
    /\ renderCalls' = renderCalls + 1
    /\ pc' = "createCommandEncoder"
    /\ UNCHANGED <<canvas, adaptor, fields, assigned, objects, calls, encVars,
                   inputs, gpuVars>>

----------------------------------------------------------------------------
(* render()                                                                *)

Cmd(op, slot, ref, count) ==
    [op |-> op, slot |-> slot, ref |-> ref, count |-> count]

\* const commandEncoder = this.device.createCommandEncoder() -- reading a
\* property of an undefined device throws
CreateCommandEncoder ==
    /\ pc = "createCommandEncoder"
    /\ IF device = "undefined"
         THEN /\ pc' = "renderThrew"
              /\ UNCHANGED <<calls, encoding>>
         ELSE /\ calls' = Append(calls, "createCommandEncoder")
              /\ encoding' = "encoder"
              /\ pc' = "beginRenderPass"
    /\ UNCHANGED <<canvas, adaptor, fields, assigned, objects, renderCalls,
                   cmds, commandBuffer, queue, inputs, gpuVars>>

\* Faulty variant of BeginRenderPass: render() builds a fresh descriptor for
\* the pass and stores it in the field.
BeginRenderPass_NewDescriptor ==
    /\ pc = "beginRenderPass"
    /\ renderPassDescriptor' = "descriptor2"
    /\ assigned' = Assign("renderPassDescriptor")
    /\ objects' = objects @@ ("descriptor2" :> objects[renderPassDescriptor])
    /\ cmds' = Append(cmds, Cmd("beginRenderPass", -1, "descriptor2", 0))
    /\ encoding' = "pass"
    /\ calls' = calls \o <<"getCurrentTexture", "createView", "beginRenderPass">>
    /\ pc' = "setPipeline"
    /\ UNCHANGED <<canvas, adaptor, context, device, pipeline, positionBuffer,
                   colorsBuffer, renderCalls, commandBuffer, queue, inputs,
                   gpuVars>>

\* const renderPassEncoder = commandEncoder.beginRenderPass(this.renderPassDescriptor)
BeginRenderPass ==
    /\ pc = "beginRenderPass"
    /\ cmds' = Append(cmds, Cmd("beginRenderPass", -1, renderPassDescriptor, 0))
    /\ encoding' = "pass"
    /\ calls' = Append(calls, "beginRenderPass")
    /\ pc' = "setPipeline"
    /\ UNCHANGED <<canvas, adaptor, fields, assigned, objects, renderCalls,
                   commandBuffer, queue, inputs, gpuVars>>

\* renderPassEncoder.setPipeline(this.pipeline)
SetPipeline ==
    /\ pc = "setPipeline"
    /\ cmds' = Append(cmds, Cmd("setPipeline", -1, pipeline, 0))
    /\ calls' = Append(calls, "setPipeline")
    /\ pc' = "setVertexBuffer0"
    /\ UNCHANGED <<canvas, adaptor, fields, assigned, objects, renderCalls,
                   encoding, commandBuffer, queue, inputs, gpuVars>>

\* renderPassEncoder.setVertexBuffer(0, this.positionBuffer)
SetPositionVertexBuffer ==
    /\ pc = "setVertexBuffer0"
    /\ cmds' = Append(cmds, Cmd("setVertexBuffer", 0, positionBuffer, 0))
    /\ calls' = Append(calls, "setVertexBuffer")
    /\ pc' = "setVertexBuffer1"
    /\ UNCHANGED <<canvas, adaptor, fields, assigned, objects, renderCalls,
                   encoding, commandBuffer, queue, inputs, gpuVars>>

\* renderPassEncoder.setVertexBuffer(1, this.colorsBuffer)
SetColorsVertexBuffer ==
    /\ pc = "setVertexBuffer1"
    /\ cmds' = Append(cmds, Cmd("setVertexBuffer", 1, colorsBuffer, 0))
    /\ calls' = Append(calls, "setVertexBuffer")
    /\ pc' = "draw"
    /\ UNCHANGED <<canvas, adaptor, fields, assigned, objects, renderCalls,
                   encoding, commandBuffer, queue, inputs, gpuVars>>

\* Faulty variant of Draw: the draw is recorded twice.
Draw_Twice ==
    /\ pc = "draw"
    /\ cmds' = cmds \o <<Cmd("draw", -1, "none", 3), Cmd("draw", -1, "none", 3)>>
    /\ calls' = calls \o <<"draw", "draw">>
    /\ pc' = "end"
    /\ UNCHANGED <<canvas, adaptor, fields, assigned, objects, renderCalls,
                   encoding, commandBuffer, queue, inputs, gpuVars>>

\* renderPassEncoder.draw(3)
Draw ==
    /\ pc = "draw"
    /\ cmds' = Append(cmds, Cmd("draw", -1, "none", 3))
    /\ calls' = Append(calls, "draw")
    /\ pc' = "end"
    /\ UNCHANGED <<canvas, adaptor, fields, assigned, objects, renderCalls,
                   encoding, commandBuffer, queue, inputs, gpuVars>>

\* Faulty variant of EndPass: the pass is left open.
EndPass_Missing ==
    /\ pc = "end"
    /\ pc' = "finish"
    /\ UNCHANGED <<canvas, adaptor, fields, assigned, objects, calls,
                   renderCalls, encVars, inputs, gpuVars>>

\* renderPassEncoder.end()
EndPass ==
    /\ pc = "end"
    /\ cmds' = Append(cmds, Cmd("end", -1, "none", 0))
    /\ encoding' = "passEnded"
    /\ calls' = Append(calls, "end")
    /\ pc' = "finish"
    /\ UNCHANGED <<canvas, adaptor, fields, assigned, objects, renderCalls,
                   commandBuffer, queue, inputs, gpuVars>>

\* const commandBuffer = commandEncoder.finish()
Finish ==
    /\ pc = "finish"
    /\ commandBuffer' = "commandBuffer"
    /\ objects' = objects @@
         ("commandBuffer" :> [commands |-> cmds, passOpen |-> encoding = "pass"])
    /\ encoding' = "finished"
    /\ calls' = Append(calls, "finish")
    /\ pc' = "submit"
    /\ UNCHANGED <<canvas, adaptor, fields, assigned, renderCalls, cmds, queue,
                   inputs, gpuVars>>

\* this.device.queue.submit([commandBuffer])
Submit ==
    /\ pc = "submit"
    /\ queue' = Append(queue, commandBuffer)
    /\ calls' = Append(calls, "submit")
    /\ pc' = "submitted"
    /\ UNCHANGED <<canvas, adaptor, fields, assigned, objects, renderCalls,
                   cmds, encoding, commandBuffer, inputs, gpuVars>>

\* render() returns to the callback, which returns; the GPU may already be
\* working on the submitted buffer
RenderReturns ==
    /\ pc = "submitted"
    /\ pc' = "done"
    /\ UNCHANGED <<canvas, adaptor, fields, assigned, objects, calls,
                   renderCalls, encVars, inputs, gpuVars>>

----------------------------------------------------------------------------
(* shader.wgsl, run by the GPU on the submitted command buffer             *)

\* Faulty variant of vertexMain: the position is the float32x2 attribute
\* fetched from the buffer bound to slot 0.
vertexMainFromBuffer(vertexIndex) ==
    LET data == objects[positionBuffer].contents
    IN  <<data[2 * vertexIndex + 1], data[2 * vertexIndex + 2], 0, 100>>

\* fn vertexMain(@builtin(vertex_index) vertexIndex : u32) -> vec4f
vertexMain(vertexIndex) ==
    LET pos == << <<0, 50>>,      \* top center
                  <<-50, -50>>,   \* bottom left
                  <<50, -50>> >>  \* bottom right
    IN  <<pos[vertexIndex + 1][1], pos[vertexIndex + 1][2], 0, 100>>

\* fn fragmentMain() -> @location(0) vec4f
fragmentMain == <<100, 0, 0, 100>>

Submitted == IF Len(queue) = 0 THEN <<>> ELSE objects[queue[1]].commands

\* the vertex indices the draw commands of the submitted buffer ask for
VertexIndices ==
    UNION {0..(Submitted[k].count - 1) :
             k \in {j \in 1..Len(Submitted) : Submitted[j].op = "draw"}}

\* loadOp 'clear': the attachment is cleared to the clear value
GpuClear ==
    /\ Len(queue) > 0
    /\ target = "blank"
    /\ target' = "cleared"
    /\ UNCHANGED <<pc, canvas, adaptor, fields, assigned, objects, calls,
                   renderCalls, encVars, inputs, vsOut, fragOut>>

\* draw(3): "execute our vertex shader 3 times"
GpuVertex ==
    /\ target = "cleared"
    /\ \E i \in VertexIndices \ DOMAIN vsOut :
         vsOut' = vsOut @@ (i :> vertexMain(i))
    /\ UNCHANGED <<pc, canvas, adaptor, fields, assigned, objects, calls,
                   renderCalls, encVars, inputs, target, fragOut>>

\* "it will call the fragment shader to find out what color to make each pixel"
GpuFragment ==
    /\ target = "cleared"
    /\ VertexIndices # {}
    /\ DOMAIN vsOut = VertexIndices
    /\ \E f \in (1..MaxFragments) \ DOMAIN fragOut :
         fragOut' = fragOut @@ (f :> fragmentMain)
    /\ UNCHANGED <<pc, canvas, adaptor, fields, assigned, objects, calls,
                   renderCalls, encVars, inputs, target, vsOut>>

\* storeOp 'store': the result of the pass is kept in the canvas texture
GpuStore ==
    /\ target = "cleared"
    /\ DOMAIN vsOut = VertexIndices
    /\ DOMAIN fragOut = 1..MaxFragments
    /\ target' = "stored"
    /\ UNCHANGED <<pc, canvas, adaptor, fields, assigned, objects, calls,
                   renderCalls, encVars, inputs, vsOut, fragOut>>

----------------------------------------------------------------------------

\* the steps the script itself takes
Script ==
    \/ GetCanvas \/ GetContext \/ CheckContext \/ RequestAdapter
    \/ RequestDevice \/ Configure \/ CreateShaderModule
    \/ CreateRenderPipeline \/ SetRenderPassDescriptor
    \/ CreatePositionBuffer \/ CreateColorsBuffer \/ ThenCallback
    \/ CreateCommandEncoder \/ BeginRenderPass \/ SetPipeline
    \/ SetPositionVertexBuffer \/ SetColorsVertexBuffer \/ Draw \/ EndPass
    \/ Finish \/ Submit \/ RenderReturns

\* the browser settling the two awaited promises
Browser == AdapterSettled \/ DeviceSettled

Gpu == GpuClear \/ GpuVertex \/ GpuFragment \/ GpuStore

Next == Script \/ Browser \/ Gpu

Spec == Init /\ [][Next]_vars

\* The script runs to completion once started and a fulfilled promise runs its
\* callback; the GPU executes what is submitted.  Nothing obliges the browser
\* to settle the adapter or device promise.
FairSpec == Spec /\ WF_vars(Script) /\ WF_vars(Gpu)

DataSpec == InitAnyData /\ [][Next]_vars

----------------------------------------------------------------------------
(* Properties                                                              *)

IsPrefix(s, t) == Len(s) <= Len(t) /\ SubSeq(t, 1, Len(s)) = s

Indices(op) == {i \in 1..Len(cmds) : cmds[i].op = op}

CallIndices(name) == {i \in 1..Len(calls) : calls[i] = name}

\* the calls that make up the stages (a) to (e)
StageCalls ==
    {"getContext", "requestAdapter", "requestDevice", "configure",
     "createShaderModule", "createRenderPipeline", "createBuffer",
     "createCommandEncoder", "beginRenderPass", "setPipeline",
     "setVertexBuffer", "draw", "end", "finish", "submit"}

IsStageCall(c) == c \in StageCalls

StageLog == SelectSeq(calls, IsStageCall)

StageOrder ==
    <<"getContext", "requestAdapter", "requestDevice", "configure",  \* (a)
      "createShaderModule",                                          \* (b)
      "createRenderPipeline",                                        \* (c)
      "createBuffer", "createBuffer",                                \* (d)
      "createCommandEncoder", "beginRenderPass", "setPipeline",      \* (e)
      "setVertexBuffer", "setVertexBuffer", "draw", "end", "finish",
      "submit">>

\* C1: in a run where context, adapter and device are obtained, the stage
\* calls happen in the order (a) acquisition and configure, (b)
\* createShaderModule, (c) createRenderPipeline, (d) position buffer then
\* colors buffer, (e) encoding and submit: what has been called so far is
\* always an initial part of that sequence, the position buffer exists
\* before the colors buffer, the script never fails or stops short, and when
\* it is done every stage has been performed exactly once.
C1_StagesInOrder ==
    device # "undefined" =>
        /\ IsPrefix(StageLog, StageOrder)
        /\ colorsBuffer # "undefined" => positionBuffer # "undefined"
        /\ Count("createBuffer", calls) =
             Cardinality({"buffer1", "buffer2"} \cap DOMAIN objects)
        /\ (positionBuffer = "undefined") = ("buffer1" \notin DOMAIN objects)
        /\ (colorsBuffer = "undefined") = ("buffer2" \notin DOMAIN objects)
        /\ pc \notin {"rejected", "renderThrew"}
        /\ pc # "done" => ENABLED Script
        /\ pc \in {"submitted", "done"} => StageLog = StageOrder

C1_Witness ==
    /\ pc = "done"
    /\ device = "device"
    /\ StageLog = StageOrder

Alerts == Count("alert", calls)

\* C2: the alert is raised exactly when getContext yields no context, and
\* then once; initialize() then returns having requested no adapter or
\* device, configured nothing and created no shader module, pipeline or
\* buffer.  A null adapter or a rejected device request raises no alert.
C2_AlertOnlyOnMissingContext ==
    /\ Alerts <= 1
    /\ (Alerts = 1) = (context = "null" /\ pc # "checkContext")
    /\ Alerts = 1 =>
         /\ pc \in {"resolved", "createCommandEncoder", "renderThrew"}
         /\ \A i \in 1..Len(calls) :
              calls[i] \notin {"requestAdapter", "requestDevice", "configure",
                               "createShaderModule", "createRenderPipeline",
                               "createBuffer"}
         /\ adaptor = "undefined"
         /\ device = "undefined"
         /\ objects = NoObjects
    /\ (adaptor = "null" \/ pc = "rejected") => Alerts = 0

C2_Witness ==
    /\ context = "null"
    /\ Alerts = 1
    /\ pc = "resolved"

InitializeSucceeded == pc = "resolved" /\ colorsBuffer # "undefined"

AtMostOneDrawAndSubmit ==
    /\ Len(queue) <= 1
    /\ Cardinality(Indices("draw")) <= 1
    /\ Cardinality(CallIndices("draw")) <= 1
    /\ Cardinality(CallIndices("submit")) <= 1
    /\ Len(queue) = 1 =>
         LET b == objects[queue[1]].commands
         IN  /\ Cardinality({i \in 1..Len(b) : b[i].op = "beginRenderPass"}) = 1
             /\ Cardinality({i \in 1..Len(b) : b[i].op = "draw"}) = 1
             /\ \A i \in 1..Len(b) : b[i].op = "draw" => b[i].count = 3

\* C3: once initialize() has succeeded exactly one command buffer is
\* eventually submitted, holding one render pass with one draw of 3
\* vertices; no run records more than one draw or submits more than one
\* command buffer.
C3_OneDrawOneSubmit ==
    /\ []AtMostOneDrawAndSubmit
    /\ InitializeSucceeded ~> (Len(queue) = 1)

C3_Witness ==
    /\ Len(queue) = 1
    /\ Cardinality(Indices("draw")) = 1
    /\ target = "stored"

InRender ==
    pc \in {"createCommandEncoder", "beginRenderPass", "setPipeline",
            "setVertexBuffer0", "setVertexBuffer1", "draw", "end", "finish",
            "submit", "submitted"}

FieldValue(f) ==
    CASE f = "context" -> context
      [] f = "device" -> device
      [] f = "pipeline" -> pipeline
      [] f = "positionBuffer" -> positionBuffer
      [] f = "colorsBuffer" -> colorsBuffer
      [] f = "renderPassDescriptor" -> renderPassDescriptor

\* C4: every field is assigned at most once in a run, and no step of
\* render() changes any of them.
C4_FieldsWrittenOnce ==
    /\ [](\A f \in FieldNames :
            /\ assigned[f] <= 1
            /\ (assigned[f] = 0) = (FieldValue(f) = "undefined"))
    /\ [][InRender => fields' = fields]_vars

C4_Witness ==
    /\ pc = "done"
    /\ \A f \in FieldNames : assigned[f] = 1

\* C5: whatever values were uploaded to the two buffers, the vertex shader
\* yields for index 0, 1, 2 the fixed positions (0, 0.5), (-0.5, -0.5),
\* (0.5, -0.5) with z = 0 and w = 1, and the fragment shader yields
\* (1, 0, 0, 1) on every invocation.
C5_ShaderOutputFixed ==
    /\ DOMAIN vsOut \subseteq 0..2
    /\ \A i \in DOMAIN vsOut :
         vsOut[i] = CASE i = 0 -> <<0, 50, 0, 100>>
                      [] i = 1 -> <<-50, -50, 0, 100>>
                      [] i = 2 -> <<50, -50, 0, 100>>
    /\ \A f \in DOMAIN fragOut : fragOut[f] = <<100, 0, 0, 100>>

C5_Witness ==
    /\ positions # PositionData
    /\ colors # ColorData
    /\ DOMAIN vsOut = 0..2
    /\ DOMAIN fragOut = 1..MaxFragments
    /\ objects[positionBuffer].contents = positions
    /\ objects[colorsBuffer].contents = colors

\* C6: beginRenderPass is recorded before setPipeline; draw only after
\* setPipeline, setVertexBuffer(0, positionBuffer) and setVertexBuffer(1,
\* colorsBuffer); the pass is ended before finish(); and submit is called
\* after finish(), with the command buffer finish() returned.
C6_EncoderOrder ==
    /\ \A p \in Indices("setPipeline") :
         \E b \in Indices("beginRenderPass") : b < p
    /\ \A d \in Indices("draw") :
         /\ \E p \in Indices("setPipeline") : p < d
         /\ \E v \in Indices("setVertexBuffer") :
              v < d /\ cmds[v].slot = 0 /\ cmds[v].ref = positionBuffer
                    /\ positionBuffer # "undefined"
         /\ \E v \in Indices("setVertexBuffer") :
              v < d /\ cmds[v].slot = 1 /\ cmds[v].ref = colorsBuffer
                    /\ colorsBuffer # "undefined"
    /\ \A f \in CallIndices("finish") :
         /\ \E e \in CallIndices("end") : e < f
         /\ encoding = "finished"
         /\ ~objects[commandBuffer].passOpen
         /\ objects[commandBuffer].commands = cmds
         /\ cmds[Len(cmds)].op = "end"
    /\ \A s \in CallIndices("submit") :
         \E f \in CallIndices("finish") : f < s
    /\ \A i \in 1..Len(queue) :
         queue[i] = commandBuffer /\ commandBuffer # "undefined"
    /\ Len(queue) = Cardinality(CallIndices("submit"))

C6_Witness ==
    /\ pc = "submitted"
    /\ queue = <<"commandBuffer">>
    /\ Indices("draw") # {}

VertexBuffers == {positionBuffer, colorsBuffer} \ {"undefined"}

\* C7: each vertex buffer has the byte length of its data as size, a multiple
\* of 4, and for each slot the drawn vertex count times the arrayStride of
\* the slot's layout does not exceed the size of the buffer bound to it.
C7_BufferSizes ==
    /\ positionBuffer # "undefined" =>
         objects[positionBuffer].size = 4 * Len(positions)
    /\ colorsBuffer # "undefined" =>
         objects[colorsBuffer].size = 4 * Len(colors)
    /\ \A h \in VertexBuffers : objects[h].size % 4 = 0
    /\ \A d \in Indices("draw") :
         \A v \in Indices("setVertexBuffer") :
           v < d =>
             cmds[d].count
               * objects[pipeline].vertex.buffers[cmds[v].slot + 1].arrayStride
             <= objects[cmds[v].ref].size

C7_Witness ==
    /\ Indices("draw") # {}
    /\ Cardinality(Indices("setVertexBuffer")) = 2
    /\ Cardinality(VertexBuffers) = 2

\* C8: render() is invoked only when initialize() has assigned device,
\* pipeline, positionBuffer, colorsBuffer and renderPassDescriptor.
C8_RenderOnlyWhenInitialized ==
    renderCalls > 0 =>
        /\ device # "undefined"
        /\ pipeline # "undefined"
        /\ positionBuffer # "undefined"
        /\ colorsBuffer # "undefined"
        /\ renderPassDescriptor # "undefined"

====
